---- MODULE Spec2Model ----
(***************************************************************************)
(* TypeSocket: a WebSocket wrapper with disconnection handling and JSON   *)
(* parsing.  The model follows the current TypeSocket class: one handle,  *)
(* the physical sockets it creates, the retry timers it schedules and the *)
(* events it emits, the listeners registered for them and the payloads   *)
(* it sends.  The WebSocket, JSON.parse and JSON.stringify are the host's: *)
(* the socket is modelled by the events it can deliver, JSON.parse by a   *)
(* recursive-descent parser over the characters of the payload, and       *)
(* JSON.stringify by a printer of the parsed values.                      *)
(***************************************************************************)
EXTENDS Integers, Sequences, FiniteSets, TLC

(***************************************************************************)
(* Bounds of the model.                                                    *)
(***************************************************************************)
\* Physical sockets one behaviour may create.
MaxSockets == 2
\* options.maxRetries is drawn from 0..MaxRetriesOpt (0: retry forever).
MaxRetriesOpt == 1
\* Retry timers pending at one time.
MaxTimers == 2
\* Physical sockets of a behaviour that receives every payload of Payloads.
MaxMessageSockets == 2
\* Physical sockets of a behaviour of open-then-close cycles on one connection:
\* the first socket and one for each of three reconnections.
MaxCycleSockets == 4
\* Physical sockets of a behaviour where connect() is called at any time: one
\* that fails, one that connect() creates and one that a retry replaces it with.
MaxPendingSockets == 3
\* Listener functions the program registers.
MaxListeners == 2

(***************************************************************************)
(* Program constants.                                                      *)
(***************************************************************************)
\* The close code the close handler treats as retryable.
NormalClosure == 1000
\* A close code other than 1000, the one the tests close with.
AbnormalClosure == 0
\* WebSocket.readyState values.
CONNECTING == 0
OPEN == 1
CLOSING == 2
CLOSED == 3

CloseCodes == {NormalClosure, AbnormalClosure}

(***************************************************************************)
(* Payloads.  A text payload is the sequence of its characters, a binary  *)
(* payload (an ArrayBuffer, since binaryType = 'arraybuffer') the sequence *)
(* of its bytes.                                                           *)
(***************************************************************************)
Text(chars) == [kind |-> "text", chars |-> chars]
Binary(bytes) == [kind |-> "binary", bytes |-> bytes]

TextPayloads ==
    { Text(<<"{", "\"", "t", "\"", ":", "\"", "x", "\"", "}">>),  \* {"t":"x"}
      Text(<<"i", "n", "v", "a", "l", "i", "d">>),                \* invalid
      Text(<<"n", "u", "l", "l">>),                               \* null
      Text(<<"0">>),                                              \* 0
      Text(<<"-", "0">>),                                         \* -0
      Text(<<"4", "2">>),                                         \* 42
      Text(<<"f", "a", "l", "s", "e">>),                          \* false
      Text(<<"t", "r", "u", "e">>),                               \* true
      Text(<<"\"", "\"">>),                                       \* ""
      Text(<<"\"", "a", "\"">>),                                  \* "a"
      Text(<<"[", "]">>),                                         \* []
      Text(<<"[", "0", ",", "n", "u", "l", "l", "]">>),           \* [0,null]
      Text(<<" ", "{", "}", " ">>),                               \*  {}
      Text(<<"{", "\"", "t", "\"">>),                             \* {"t"
      Text(<<"0", "1">>),                                         \* 01
      Text(<<>>) }                                                \* (empty)

BinaryPayloads == { Binary(<<1, 2, 3, 4>>), Binary(<<>>) }

Payloads == TextPayloads \cup BinaryPayloads

\* The payloads of the behaviours that exercise the connection lifecycle.
LifecyclePayloads ==
    { Text(<<"{", "\"", "t", "\"", ":", "\"", "x", "\"", "}">>), Binary(<<1, 2, 3, 4>>) }

(***************************************************************************)
(* JSON.parse, for the JSON texts without escapes, fractions or exponents: *)
(* null, true, false, integers, strings, arrays and objects.  A result is *)
(* [ok, val, rest]; a value is tagged with its JavaScript type.            *)
(***************************************************************************)
Digits == <<"0", "1", "2", "3", "4", "5", "6", "7", "8", "9">>
IsDigit(c) == \E i \in 1..10 : Digits[i] = c
DigitValue(c) == (CHOOSE i \in 1..10 : Digits[i] = c) - 1

Drop(s, n) == SubSeq(s, n + 1, Len(s))
StartsWith(s, p) == Len(s) >= Len(p) /\ SubSeq(s, 1, Len(p)) = p

ParseFail == [ok |-> FALSE]
ParseOk(v, rest) == [ok |-> TRUE, val |-> v, rest |-> rest]

JsonNull == [t |-> "null"]
JsonBool(b) == [t |-> "boolean", v |-> b]
JsonNumber(n) == [t |-> "number", v |-> n]
JsonString(cs) == [t |-> "string", v |-> cs]
JsonArray(vs) == [t |-> "array", v |-> vs]
JsonObject(ms) == [t |-> "object", v |-> ms]

RECURSIVE SkipWs(_)
SkipWs(s) == IF s # <<>> /\ Head(s) = " " THEN SkipWs(Tail(s)) ELSE s

RECURSIVE ParseDigits(_, _)
ParseDigits(s, acc) ==
    IF s # <<>> /\ IsDigit(Head(s))
    THEN ParseDigits(Tail(s), 10 * acc + DigitValue(Head(s)))
    ELSE ParseOk(JsonNumber(acc), s)

\* An integer: an optional minus, then 0 or a digit sequence without a leading 0.
ParseNumber(s) ==
    LET neg == s # <<>> /\ Head(s) = "-"
        d == IF neg THEN Tail(s) ELSE s
    IN  IF d = <<>> \/ ~IsDigit(Head(d)) THEN ParseFail
        ELSE LET r == IF Head(d) = "0" THEN ParseOk(JsonNumber(0), Tail(d))
                      ELSE ParseDigits(d, 0)
             IN  IF neg THEN ParseOk(JsonNumber(0 - r.val.v), r.rest) ELSE r

\* The characters of a string up to its closing quote; s follows the opening
\* quote.  A backslash escapes the quote or the backslash that follows it.
RECURSIVE ParseChars(_, _)
ParseChars(s, acc) ==
    IF s = <<>> THEN ParseFail
    ELSE IF Head(s) = "\\"
         THEN IF Len(s) >= 2 /\ s[2] \in {"\"", "\\"}
              THEN ParseChars(Drop(s, 2), Append(acc, s[2]))
              ELSE ParseFail
    ELSE IF Head(s) = "\"" THEN ParseOk(JsonString(acc), Tail(s))
    ELSE ParseChars(Tail(s), Append(acc, Head(s)))

ParseString(s) ==
    IF s # <<>> /\ Head(s) = "\"" THEN ParseChars(Tail(s), <<>>) ELSE ParseFail

RECURSIVE ParseValue(_), ParseElements(_, _), ParseMembers(_, _)

\* A value, with the whitespace before and after it.
ParseValue(s0) ==
    LET s == SkipWs(s0)
        r == IF s = <<>> THEN ParseFail
             ELSE IF StartsWith(s, <<"n", "u", "l", "l">>)
                  THEN ParseOk(JsonNull, Drop(s, 4))
             ELSE IF StartsWith(s, <<"t", "r", "u", "e">>)
                  THEN ParseOk(JsonBool(TRUE), Drop(s, 4))
             ELSE IF StartsWith(s, <<"f", "a", "l", "s", "e">>)
                  THEN ParseOk(JsonBool(FALSE), Drop(s, 5))
             ELSE IF Head(s) = "\"" THEN ParseString(s)
             ELSE IF Head(s) = "[" THEN
                  LET t == SkipWs(Tail(s))
                  IN  IF t # <<>> /\ Head(t) = "]"
                      THEN ParseOk(JsonArray(<<>>), Tail(t))
                      ELSE ParseElements(t, <<>>)
             ELSE IF Head(s) = "{" THEN
                  LET t == SkipWs(Tail(s))
                  IN  IF t # <<>> /\ Head(t) = "}"
                      THEN ParseOk(JsonObject(<<>>), Tail(t))
                      ELSE ParseMembers(t, <<>>)
             ELSE ParseNumber(s)
    IN  IF r.ok THEN ParseOk(r.val, SkipWs(r.rest)) ELSE ParseFail

\* value (, value)* ]
ParseElements(s, acc) ==
    LET r == ParseValue(s)
    IN  IF ~r.ok \/ r.rest = <<>> THEN ParseFail
        ELSE IF Head(r.rest) = "]"
             THEN ParseOk(JsonArray(Append(acc, r.val)), Tail(r.rest))
        ELSE IF Head(r.rest) = ","
             THEN ParseElements(Tail(r.rest), Append(acc, r.val))
        ELSE ParseFail

\* string : value (, string : value)* }
ParseMembers(s, acc) ==
    LET k == ParseString(SkipWs(s))
    IN  IF ~k.ok THEN ParseFail
        ELSE LET c == SkipWs(k.rest)
             IN  IF c = <<>> \/ Head(c) # ":" THEN ParseFail
                 ELSE LET r == ParseValue(Tail(c))
                          m == Append(acc, <<k.val.v, r.val>>)
                      IN  IF ~r.ok \/ r.rest = <<>> THEN ParseFail
                          ELSE IF Head(r.rest) = "}"
                               THEN ParseOk(JsonObject(m), Tail(r.rest))
                          ELSE IF Head(r.rest) = ","
                               THEN ParseMembers(Tail(r.rest), m)
                          ELSE ParseFail

\* JSON.parse(text): [ok |-> TRUE, val |-> v], or [ok |-> FALSE] where it throws.
JSONparse(chars) ==
    LET r == ParseValue(chars)
    IN  IF r.ok /\ r.rest = <<>> THEN [ok |-> TRUE, val |-> r.val] ELSE ParseFail

\* JSON.stringify(value), for the values of JSON: no whitespace, the quotes and
\* backslashes of strings escaped, the members of an object in their order.
RECURSIVE ToDigits(_)
ToDigits(n) ==
    IF n < 10 THEN <<Digits[n + 1]>>
    ELSE Append(ToDigits(n \div 10), Digits[(n % 10) + 1])

RECURSIVE Escape(_)
Escape(cs) ==
    IF cs = <<>> THEN <<>>
    ELSE (IF Head(cs) \in {"\"", "\\"} THEN <<"\\", Head(cs)>> ELSE <<Head(cs)>>)
         \o Escape(Tail(cs))

Quoted(cs) == <<"\"">> \o Escape(cs) \o <<"\"">>

RECURSIVE JSONstringify(_), StringifyElements(_), StringifyMembers(_)

JSONstringify(v) ==
    CASE v.t = "null" -> <<"n", "u", "l", "l">>
      [] v.t = "boolean" ->
            IF v.v THEN <<"t", "r", "u", "e">> ELSE <<"f", "a", "l", "s", "e">>
      [] v.t = "number" ->
            IF v.v < 0 THEN <<"-">> \o ToDigits(0 - v.v) ELSE ToDigits(v.v)
      [] v.t = "string" -> Quoted(v.v)
      [] v.t = "array" -> <<"[">> \o StringifyElements(v.v) \o <<"]">>
      [] v.t = "object" -> <<"{">> \o StringifyMembers(v.v) \o <<"}">>

StringifyElements(vs) ==
    IF vs = <<>> THEN <<>>
    ELSE JSONstringify(Head(vs))
         \o (IF Len(vs) > 1 THEN <<",">> \o StringifyElements(Tail(vs)) ELSE <<>>)

StringifyMembers(ms) ==
    IF ms = <<>> THEN <<>>
    ELSE Quoted(Head(ms)[1]) \o <<":">> \o JSONstringify(Head(ms)[2])
         \o (IF Len(ms) > 1 THEN <<",">> \o StringifyMembers(Tail(ms)) ELSE <<>>)

\* The values the program sends, in a list: the message of the tests,
\* {type: 'test'}, and values of every JSON type.
SendValues ==
    << JsonObject(<< <<(<<"t", "y", "p", "e">>), JsonString(<<"t", "e", "s", "t">>)>> >>),
      JsonNull, JsonBool(TRUE), JsonBool(FALSE),
      JsonNumber(0), JsonNumber(42), JsonNumber(0 - 107),
      JsonString(<<>>), JsonString(<<"a", " ", "b">>),
      JsonString(<<"\"", "\\", "n">>),
      JsonArray(<<>>), JsonArray(<<JsonNumber(0), JsonNull, JsonArray(<<JsonBool(TRUE)>>)>>),
      JsonObject(<<>>),
      JsonObject(<< <<(<<"a">>), JsonArray(<<JsonString(<<"}">>)>>)>>,
                    <<(<<"b", "\"">>), JsonObject(<< <<(<<>>), JsonNumber(5)>> >>)>> >>) >>

\* JavaScript's truthiness of a parsed value: if (json).
Truthy(v) ==
    CASE v.t = "null" -> FALSE
      [] v.t = "boolean" -> v.v
      [] v.t = "number" -> v.v # 0
      [] v.t = "string" -> v.v # <<>>
      [] OTHER -> TRUE

(***************************************************************************)
(* State.                                                                  *)
(***************************************************************************)
VARIABLES
    maxRetries,     \* options.maxRetries
    retryOnClose,   \* options.retryOnClose
    socket,         \* this.socket: the held physical socket, 0 for null
    retries,        \* this.retries
    timers,         \* setTimeout callbacks scheduled and not yet run
    socks,          \* the physical sockets, by order of creation
    nsock,          \* how many physical sockets were created
    out,            \* the events the last step emitted, in order
    last,           \* the last step: what ran, on which socket, with what input
    terminal,       \* history: what last emitted permanentlyDisconnected since connect()
    stopped,        \* history: disconnect() was called and connect() was not since
    errOnly,        \* history: one connect(), then only errors before open and retries
    c2,             \* history: the phase of an isolated graceful-close cycle
    cycle,          \* history: the open-then-normal-closure cycles since connect()
    events,         \* the listeners registered for each event, in order of insertion
    raising,        \* the listener functions that raise when they are invoked
    calls,          \* the listener invocations of the last step, in order
    raised,         \* the last step ended with an exception leaving its handler
    sent,           \* the payloads the last step handed to a socket's send()
    reenters,       \* what each listener function calls when invoked: on, off or neither
    closeRaises,    \* the sockets' close() raises
    fresh           \* connect() was called after the retries were exhausted, with no
                    \* retry pending, and its socket has at most failed since

vars == <<maxRetries, retryOnClose, socket, retries, timers, socks, nsock,
          out, last, terminal, stopped, errOnly, c2, cycle,
          events, raising, calls, raised, sent, reenters, closeRaises, fresh>>

\* The physical sockets of the longest behaviours, those of MaxCycleSockets.
SocketIds == 1..MaxCycleSockets

\* A physical socket: its readyState, what it has delivered, whether close() was
\* called on it, and whether its onclose and onerror handlers are attached.
FreshSocket ==
    [rs |-> CONNECTING, opened |-> FALSE, errored |-> FALSE, done |-> FALSE,
     closeCalled |-> FALSE, hooked |-> TRUE]

\* A socket that delivered its close event delivers nothing more.
DoneSocket ==
    [rs |-> CLOSED, opened |-> FALSE, errored |-> FALSE, done |-> TRUE,
     closeCalled |-> FALSE, hooked |-> FALSE]

Created(s) == s \in 1..nsock

\* The event types of TypeSocketEvents, and the listener functions.
EventKinds ==
    {"connected", "disconnected", "permanentlyDisconnected", "message",
     "invalidMessage", "rawMessage", "binaryMessage"}

Listeners == 1..MaxListeners

\* The handle as the handlers below read and write it; out collects the emits,
\* calls the listener invocations, and thrown says an exception is propagating.
Cur ==
    [socket |-> socket, retries |-> retries, timers |-> timers,
     socks |-> socks, nsock |-> nsock, out |-> <<>>,
     events |-> events, calls |-> <<>>, thrown |-> FALSE, sent |-> <<>>]

\* A statement is skipped while an exception propagates.
Unless(st, after) == IF st.thrown THEN st ELSE after

\* try { ... } catch {}: before enters the block, after leaves it.
Catch(before, after) ==
    IF before.thrown THEN before ELSE [after EXCEPT !.thrown = FALSE]

(***************************************************************************)
(* The host's WebSocket: constructor, close() and setTimeout.              *)
(***************************************************************************)
\* new WebSocket(url), assigned to this.socket with its four handlers.
NewWebSocket(st) ==
    Unless(st, [st EXCEPT !.nsock = @ + 1,
                          !.socks[st.nsock + 1] = FreshSocket,
                          !.socket = st.nsock + 1])

\* socket.close(): starts the closing handshake unless closing or closed already;
\* where it raises, the socket is left as it was.
WebSocketClose(st, s) ==
    Unless(st, IF closeRaises THEN [st EXCEPT !.thrown = TRUE]
               ELSE [st EXCEPT !.socks[s].closeCalled = TRUE,
                               !.socks[s].rs = IF @ \in {CLOSING, CLOSED} THEN @
                                               ELSE CLOSING])

\* socket.send(data): the socket is handed the payload.
WebSocketSend(st, s, data) ==
    Unless(st, [st EXCEPT !.sent = Append(@, [sock |-> s, data |-> data])])

setTimeout(st) == Unless(st, [st EXCEPT !.timers = @ + 1])

(***************************************************************************)
(* TypeSocket's private methods.                                           *)
(***************************************************************************)
\* One invocation of a listener.
Call(listener, eventType, args) ==
    [listener |-> listener, kind |-> eventType, args |-> args]

\* on(eventType, listener): Set.add.
on(st, eventType, listener) ==
    Unless(st, [st EXCEPT !.events[eventType] =
        IF \E i \in 1..Len(@) : @[i] = listener THEN @ ELSE Append(@, listener)])

\* off(eventType, listener): Set.delete.
off(st, eventType, listener) ==
    Unless(st, [st EXCEPT !.events[eventType] =
        SelectSeq(@, LAMBDA l : l # listener)])

\* The listener a re-entrant listener registers or removes: the next one.
Partner(listener) == (listener % MaxListeners) + 1

\* The for...of loop of emit from the i-th listener of the Set on.  The Set is
\* read as the loop goes: a listener added during the loop is at the end and is
\* reached, one removed before it is reached is not invoked.  A listener that
\* raises ends the loop and the exception propagates to the caller of emit.
RECURSIVE EmitLoop(_, _, _, _)
EmitLoop(st, eventType, args, i) ==
    LET ls == st.events[eventType]
        listener == ls[i]
        called == [st EXCEPT !.calls = Append(@, Call(listener, eventType, args))]
        after == IF listener \in raising THEN [called EXCEPT !.thrown = TRUE]
                 ELSE IF reenters[listener] = "on"
                      THEN on(called, eventType, Partner(listener))
                 ELSE IF reenters[listener] = "off"
                      THEN off(called, eventType, Partner(listener))
                 ELSE called
        gone == /\ listener \notin raising
                /\ reenters[listener] = "off"
                /\ \E j \in 1..i : ls[j] = Partner(listener)
    IN  IF st.thrown \/ i > Len(ls) THEN st
        ELSE EmitLoop(after, eventType, args, IF gone THEN i ELSE i + 1)

emit(st, eventType, args) ==
    Unless(st, EmitLoop([st EXCEPT !.out = Append(@, [kind |-> eventType,
                                                       args |-> args])],
                        eventType, args, 1))

connected(st) == emit(Unless(st, [st EXCEPT !.retries = 0]), "connected", <<>>)

disconnected(st) == emit(st, "disconnected", <<>>)

permanentlyDisconnected(st) == emit(st, "permanentlyDisconnected", <<>>)

\* message() returning once binaryMessage is emitted.
message_binaryReturns(st, data) ==
    LET raw == emit(st, "rawMessage", <<data>>)
    IN  IF data.kind = "text"
        THEN LET json == JSONparse(data.chars)
             IN  IF json.ok /\ Truthy(json.val)
                 THEN emit(raw, "message", <<json.val>>)
                 ELSE emit(raw, "invalidMessage", <<data>>)
        ELSE IF data.kind = "binary"
        THEN emit(raw, "binaryMessage", <<data>>)
        ELSE emit(raw, "invalidMessage", <<data>>)

\* message() without the if (json) test: whatever decodes is a message.
message_noTruthTest(st, data) ==
    LET raw == emit(st, "rawMessage", <<data>>)
    IN  IF data.kind = "text"
        THEN LET json == JSONparse(data.chars)
             IN  IF json.ok
                 THEN emit(raw, "message", <<json.val>>)
                 ELSE emit(raw, "invalidMessage", <<data>>)
        ELSE IF data.kind = "binary"
        THEN emit(emit(raw, "binaryMessage", <<data>>), "invalidMessage", <<data>>)
        ELSE emit(raw, "invalidMessage", <<data>>)

\* The emit of message is inside the try block that catches what JSON.parse
\* throws: where a message listener raises, the exception is caught too and
\* invalidMessage is emitted after it.
message(st, data) ==
    LET raw == emit(st, "rawMessage", <<data>>)
    IN  IF data.kind = "text"
        THEN LET json == JSONparse(data.chars)
                 told == emit(raw, "message", <<json.val>>)
             IN  IF json.ok /\ Truthy(json.val)
                 THEN IF told.thrown /\ ~raw.thrown
                      THEN emit(Catch(raw, told), "invalidMessage", <<data>>)
                      ELSE told
                 ELSE emit(raw, "invalidMessage", <<data>>)
        ELSE IF data.kind = "binary"
        THEN emit(emit(raw, "binaryMessage", <<data>>), "invalidMessage", <<data>>)
        ELSE emit(raw, "invalidMessage", <<data>>)

\* connect() cancelling the retries that are pending.
connect_cancelsRetries(st) ==
    LET torn == IF st.socket # 0
                THEN Catch(st, disconnected(WebSocketClose(st, st.socket)))
                ELSE st
    IN  NewWebSocket(Unless(torn, [torn EXCEPT !.timers = 0]))

\* connect() resetting the retry counter.
connect_resetsRetries(st) ==
    LET torn == IF st.socket # 0
                THEN Catch(st, disconnected(WebSocketClose(st, st.socket)))
                ELSE st
    IN  NewWebSocket(Unless(torn, [torn EXCEPT !.retries = 0]))

connect(st) ==
    LET torn == IF st.socket # 0
                THEN Catch(st, disconnected(WebSocketClose(st, st.socket)))
                ELSE st
    IN  NewWebSocket(torn)

reconnectAfterTime(st) ==
    LET closed == IF st.socket # 0 THEN WebSocketClose(st, st.socket) ELSE st
    IN  setTimeout(disconnected(Unless(closed, [closed EXCEPT !.socket = 0])))

\* reconnect() comparing with >= where the code compares with >.
reconnect_offByOne(st) ==
    LET counted == [st EXCEPT !.retries = @ + 1]
    IN  IF maxRetries # 0 /\ counted.retries >= maxRetries
        THEN permanentlyDisconnected(disconnected(counted))
        ELSE connect(counted)

\* reconnect() testing the limit before it counts the retry.
reconnect_testsBeforeCounting(st) ==
    LET counted == [st EXCEPT !.retries = @ + 1]
    IN  IF maxRetries # 0 /\ st.retries > maxRetries
        THEN permanentlyDisconnected(disconnected(counted))
        ELSE connect(counted)

\* reconnect() taking maxRetries = 0 as a limit of no retry.
reconnect_zeroIsLimit(st) ==
    LET counted == [st EXCEPT !.retries = @ + 1]
    IN  IF counted.retries > maxRetries
        THEN permanentlyDisconnected(disconnected(counted))
        ELSE connect(counted)

\* reconnect() giving up without the disconnected event.
reconnect_skipsDisconnected(st) ==
    LET counted == [st EXCEPT !.retries = @ + 1]
    IN  IF maxRetries # 0 /\ counted.retries > maxRetries
        THEN permanentlyDisconnected(counted)
        ELSE connect(counted)

reconnect(st) ==
    LET counted == Unless(st, [st EXCEPT !.retries = @ + 1])
    IN  IF maxRetries # 0 /\ counted.retries > maxRetries
        THEN permanentlyDisconnected(disconnected(counted))
        ELSE connect(counted)

\* disconnect() leaving onclose and onerror attached.
disconnect_keepsHandlers(st) ==
    IF st.socket # 0
    THEN permanentlyDisconnected(disconnected(WebSocketClose(st, st.socket)))
    ELSE st

disconnect(st) ==
    IF st.socket # 0
    THEN LET unhooked == Unless(st, [st EXCEPT !.socks[st.socket].hooked = FALSE])
         IN  Catch(st, permanentlyDisconnected(disconnected(
                 WebSocketClose(unhooked, st.socket))))
    ELSE st

\* send() handing the value over as it is, as sendRaw() does.
send_raw(st, data) ==
    IF st.socket = 0 THEN st ELSE WebSocketSend(st, st.socket, data)

\* send() without the test of the slot: a method call on null raises.
send_unguarded(st, data) ==
    IF st.socket = 0 THEN [st EXCEPT !.thrown = TRUE]
    ELSE WebSocketSend(st, st.socket, Text(JSONstringify(data)))

send(st, data) ==
    IF st.socket = 0 THEN st
    ELSE WebSocketSend(st, st.socket, Text(JSONstringify(data)))

sendRaw(st, data) ==
    IF st.socket = 0 THEN st ELSE WebSocketSend(st, st.socket, data)

\* get readyState()
readyState(st) == IF st.socket # 0 THEN st.socks[st.socket].rs ELSE 0

\* The handlers connect() attaches to the socket it creates.
onopen(st) == connected(st)

\* The close handler without the test of the normal-closure code.
onclose_noNormalClosure(st, code) ==
    IF retryOnClose /\ st.socket # 0
    THEN reconnectAfterTime(st)
    ELSE permanentlyDisconnected(disconnected(st))

onclose(st, code) ==
    IF code = NormalClosure \/ (retryOnClose /\ st.socket # 0)
    THEN reconnectAfterTime(st)
    ELSE permanentlyDisconnected(disconnected(st))

onmessage(st, data) == message(st, data)

onerror(st) ==
    LET told == disconnected(st)
    IN  reconnectAfterTime(Unless(told, [told EXCEPT !.socket = 0]))

(***************************************************************************)
(* Steps.  Each runs one public method, one socket handler or one timer    *)
(* callback to completion: the program is single-threaded.                 *)
(***************************************************************************)
Emitted(o, kind) == \E i \in 1..Len(o) : o[i].kind = kind

\* How many of the events o are of one of the kinds.
Count(o, kinds) == Cardinality({i \in 1..Len(o) : o[i].kind \in kinds})

\* Cycles of the held socket opening and then closing with code 1000, counted
\* from the one connect() of a new handle: the closures, and the connected events
\* emitted.  NoCycle once anything else has happened.
NewCycle == [ok |-> TRUE, closes |-> 0, connected |-> 0]
NoCycle == [ok |-> FALSE, closes |-> 0, connected |-> 0]

\* What ran (op), on which socket, that socket's state before the step, the input.
Step(op, s, arg) ==
    [op |-> op, sock |-> s, held |-> (s # 0 /\ s = socket),
     hooked |-> (s # 0 /\ socks[s].hooked),
     rs |-> IF s # 0 THEN socks[s].rs ELSE CONNECTING, arg |-> arg]

\* The step op, run on socket s with input arg, leaves the handle as st.
Commit(op, s, arg, st) ==
    /\ socket' = st.socket
    /\ retries' = st.retries
    /\ timers' = st.timers
    /\ socks' = st.socks
    /\ nsock' = st.nsock
    /\ out' = st.out
    /\ events' = st.events
    /\ calls' = st.calls
    /\ raised' = st.thrown
    /\ sent' = st.sent
    /\ UNCHANGED <<maxRetries, retryOnClose, raising, reenters, closeRaises>>
    /\ last' = Step(op, s, arg)
    /\ terminal' = IF op = "connect" THEN "no"
                   ELSE IF Emitted(st.out, "permanentlyDisconnected") THEN op
                   ELSE terminal
    /\ stopped' = IF op = "connect" THEN FALSE
                  ELSE IF op = "disconnect" THEN TRUE
                  ELSE stopped
    /\ fresh' = IF op = "connect" THEN terminal = "retry" /\ timers = 0
                ELSE IF op = "error" THEN fresh /\ s = socket /\ ~socks[s].opened
                ELSE FALSE

\* A new handle, whose program has the listener functions faulty raise and the
\* others do as reentry says, and whose sockets' close() raises if broken.
InitOf(faulty, reentry, broken) ==
    /\ events = [kind \in EventKinds |-> <<>>]
    /\ raising = faulty
    /\ reenters = reentry
    /\ closeRaises = broken
    /\ fresh = FALSE
    /\ calls = <<>>
    /\ raised = FALSE
    /\ sent = <<>>
    /\ maxRetries \in 0..MaxRetriesOpt
    /\ retryOnClose \in BOOLEAN
    /\ socket = 0
    /\ retries = 0
    /\ timers = 0
    /\ socks = [s \in SocketIds |-> FreshSocket]
    /\ nsock = 0
    /\ out = <<>>
    /\ last = Step("new", 0, 0)
    /\ terminal = "no"
    /\ stopped = FALSE
    /\ errOnly = TRUE
    /\ c2 = "none"
    /\ cycle = NewCycle

\* No listener calls on or off.
Plain == [listener \in Listeners |-> "no"]

InitWith(faulty) == InitOf(faulty, Plain, FALSE)

Init == InitWith({})

\* typesocket.connect(), while fewer than cap sockets were created.
Connect(cap) ==
    /\ nsock < cap
    /\ Commit("connect", 0, 0, connect(Cur))
    /\ errOnly' = (errOnly /\ nsock = 0)
    /\ c2' = "none"
    /\ cycle' = IF nsock = 0 THEN cycle ELSE NoCycle

\* typesocket.disconnect()
Disconnect ==
    /\ Commit("disconnect", socket, 0, disconnect(Cur))
    /\ errOnly' = FALSE
    /\ c2' = "none"
    /\ cycle' = NoCycle

\* A scheduled retry runs: reconnect().  It may create a socket while fewer than
\* cap were created.
TimerFire(cap) ==
    /\ timers > 0
    /\ (maxRetries = 0 \/ retries + 1 <= maxRetries) => nsock < cap
    /\ Commit("retry", 0, 0, reconnect([Cur EXCEPT !.timers = @ - 1]))
    /\ UNCHANGED <<errOnly, cycle>>
    /\ c2' = IF c2 = "closed" THEN "retried" ELSE "none"

\* The socket's open event.
SocketOpen(s) ==
    /\ Created(s)
    /\ socks[s].rs = CONNECTING
    /\ Commit("open", s, 0, onopen([Cur EXCEPT !.socks[s].rs = OPEN, !.socks[s].opened = TRUE]))
    /\ errOnly' = FALSE
    /\ c2' = IF c2 = "retried" /\ s = socket THEN "reopened" ELSE "none"
    /\ cycle' = IF cycle.ok /\ s = socket
                THEN [cycle EXCEPT !.connected = @ + Count(out', {"connected"})]
                ELSE NoCycle

\* A message event: the socket is or was open and has not closed or failed.
SocketMessage(s, data) ==
    /\ Created(s)
    /\ socks[s].opened
    /\ socks[s].rs \in {OPEN, CLOSING}
    /\ Commit("message", s, data, onmessage(Cur, data))
    /\ errOnly' = FALSE
    /\ c2' = "none"
    /\ cycle' = NoCycle

\* The socket's error event: the connection failed.
SocketError(s) ==
    /\ Created(s)
    /\ ~socks[s].done
    /\ ~socks[s].errored
    /\ socks[s].hooked => timers < MaxTimers
    /\ LET failed == [Cur EXCEPT !.socks[s].rs = CLOSED, !.socks[s].errored = TRUE]
       IN  Commit("error", s, 0, IF socks[s].hooked THEN onerror(failed) ELSE failed)
    /\ errOnly' = (errOnly /\ s = socket /\ ~socks[s].opened)
    /\ c2' = "none"
    /\ cycle' = NoCycle

\* The socket's close event, the last event it delivers.
SocketClose(s, code) ==
    /\ Created(s)
    /\ ~socks[s].done
    /\ socks[s].hooked => timers < MaxTimers
    /\ LET gone == [Cur EXCEPT !.socks[s] = DoneSocket]
       IN  Commit("close", s, code, IF socks[s].hooked THEN onclose(gone, code) ELSE gone)
    /\ errOnly' = FALSE
    /\ c2' = IF /\ code = NormalClosure
                /\ s = socket
                /\ socks[s].hooked
                /\ socks[s].rs = OPEN
                /\ timers = 0
             THEN "closed" ELSE "none"
    /\ cycle' = IF /\ cycle.ok
                   /\ code = NormalClosure
                   /\ s = socket
                   /\ socks[s].rs = OPEN
                THEN [cycle EXCEPT !.closes = @ + 1]
                ELSE NoCycle

\* typesocket.on(eventType, listener); listeners are registered for one event
\* type at a time.
On(eventType, listener) ==
    /\ \A kind \in EventKinds \ {eventType} : events[kind] = <<>>
    /\ Commit("on", 0, <<eventType, listener>>, on(Cur, eventType, listener))
    /\ errOnly' = FALSE
    /\ c2' = "none"
    /\ cycle' = NoCycle

\* typesocket.off(eventType, listener)
Off(eventType, listener) ==
    /\ Commit("off", 0, <<eventType, listener>>, off(Cur, eventType, listener))
    /\ errOnly' = FALSE
    /\ c2' = "none"
    /\ cycle' = NoCycle

\* typesocket.send(data)
Send(data) ==
    /\ Commit("send", socket, data, send(Cur, data))
    /\ errOnly' = FALSE
    /\ c2' = "none"
    /\ cycle' = NoCycle

\* typesocket.sendRaw(data)
SendRaw(data) ==
    /\ Commit("sendRaw", socket, data, sendRaw(Cur, data))
    /\ errOnly' = FALSE
    /\ c2' = "none"
    /\ cycle' = NoCycle

\* typesocket.readyState
ReadyState ==
    /\ Commit("readyState", socket, readyState(Cur), Cur)
    /\ UNCHANGED <<errOnly, c2, cycle>>

Steps(inbound, cap) ==
    \/ Connect(cap)
    \/ Disconnect
    \/ TimerFire(cap)
    \/ \E s \in SocketIds : SocketOpen(s)
    \/ \E s \in SocketIds, data \in inbound : SocketMessage(s, data)
    \/ \E s \in SocketIds : SocketError(s)
    \/ \E s \in SocketIds, code \in CloseCodes : SocketClose(s, code)

Next == Steps(LifecyclePayloads, MaxSockets)

Spec == Init /\ [][Next]_vars

\* The handle receiving every payload of Payloads, with the default retryOnClose
\* and one retry allowed.
InitMessages == Init /\ maxRetries = 1 /\ ~retryOnClose

\* The steps of a handle driven by one connection at a time: one connect(), and
\* the events of the held socket.
HeldSteps(inbound, cap) ==
    \/ nsock = 0 /\ Connect(cap)
    \/ Disconnect
    \/ TimerFire(cap)
    \/ socket # 0 /\ SocketOpen(socket)
    \/ \E data \in inbound : socket # 0 /\ SocketMessage(socket, data)
    \/ socket # 0 /\ SocketError(socket)
    \/ \E code \in CloseCodes : socket # 0 /\ SocketClose(socket, code)

NextMessages == Steps(Payloads, MaxMessageSockets)

SpecMessages == InitMessages /\ [][NextMessages]_vars

\* The handle that retries forever and on every close, driven by one connection
\* at a time.
InitCycles == Init /\ maxRetries = 0 /\ retryOnClose

NextCycles == HeldSteps(LifecyclePayloads, MaxCycleSockets)

SpecCycles == InitCycles /\ [][NextCycles]_vars

\* The handle of a program that registers and removes listeners, of which the
\* first few raise, driven by one connection at a time.
InitListeners ==
    /\ \E n \in 0..MaxListeners : InitWith(1..n)
    /\ maxRetries = 1
    /\ ~retryOnClose

NextListeners ==
    \/ HeldSteps(LifecyclePayloads, MaxMessageSockets)
    \/ \E eventType \in EventKinds, listener \in Listeners : On(eventType, listener)
    \/ \E eventType \in EventKinds, listener \in Listeners : Off(eventType, listener)

SpecListeners == InitListeners /\ [][NextListeners]_vars

\* The same where no listener raises and the first listener, when it is invoked,
\* registers or removes the second for the event it is invoked for.
InitReentry ==
    /\ \E call \in {"on", "off"} :
          InitOf({}, [listener \in Listeners |-> IF listener = 1 THEN call ELSE "no"],
                 FALSE)
    /\ maxRetries = 1
    /\ ~retryOnClose

SpecReentry == InitReentry /\ [][NextListeners]_vars

\* The handle whose sockets' close() raises.
InitBroken == InitOf({}, Plain, TRUE)

SpecBroken == InitBroken /\ [][Next]_vars

\* The handle of a program that calls connect() at any time, the events being
\* those of the held socket.
NextPending ==
    \/ Connect(MaxPendingSockets)
    \/ HeldSteps(LifecyclePayloads, MaxPendingSockets)

SpecPending == InitMessages /\ [][NextPending]_vars

\* The handle of a program that sends, driven by one connection at a time.
NextSend ==
    \/ HeldSteps(LifecyclePayloads, MaxMessageSockets)
    \/ \E i \in 1..Len(SendValues) : Send(SendValues[i])
    \/ \E data \in LifecyclePayloads : SendRaw(data)

SpecSend == InitMessages /\ [][NextSend]_vars

\* The handle of a program that calls every public method at any time, with one
\* listener function, the events being those of the held socket.
NextFrame ==
    \/ Connect(MaxMessageSockets)
    \/ HeldSteps(LifecyclePayloads, MaxMessageSockets)
    \/ \E eventType \in EventKinds : On(eventType, 1)
    \/ \E eventType \in EventKinds : Off(eventType, 1)
    \/ Send(SendValues[1])
    \/ \E data \in LifecyclePayloads : SendRaw(data)
    \/ ReadyState

SpecFrame == InitMessages /\ [][NextFrame]_vars

(***************************************************************************)
(* Properties.                                                             *)
(***************************************************************************)
Event(kind) == [kind |-> kind, args |-> <<>>]
MessageEvent(kind, arg) == [kind |-> kind, args |-> <<arg>>]

\* C1: with maxRetries = N > 0, after one connect() where every socket fails with
\* an error event before it opens and nothing else intervenes,
\* permanentlyDisconnected is emitted exactly when N+1 sockets were created and
\* have failed and the retry after the last failure has run; at most N+1 sockets
\* are ever created, and once it is emitted no retry is pending and no socket is
\* held, so that nothing creates a further socket automatically.
C1_ExhaustionAfterNPlusOneFailures ==
    (errOnly /\ maxRetries > 0) =>
        /\ nsock <= maxRetries + 1
        /\ retries <= maxRetries + 1
        /\ Emitted(out, "permanentlyDisconnected") <=> (retries = maxRetries + 1)
        /\ Emitted(out, "permanentlyDisconnected") =>
              /\ out = <<Event("disconnected"), Event("permanentlyDisconnected")>>
              /\ nsock = maxRetries + 1
              /\ \A s \in 1..nsock : socks[s].errored /\ ~socks[s].opened
              /\ timers = 0
              /\ socket = 0

C1_Witness ==
    /\ errOnly
    /\ maxRetries = MaxRetriesOpt
    /\ nsock = MaxRetriesOpt + 1
    /\ Emitted(out, "permanentlyDisconnected")

SocketOps == {"open", "close", "error", "message"}

\* The close handler's two branches, as the code decides between them.  (Holds.)
CloseHandlerBranches ==
    [][(last'.op = "close" /\ last'.hooked) =>
          IF last'.arg = NormalClosure \/ (retryOnClose /\ socket # 0)
          THEN /\ out' = <<Event("disconnected")>>
               /\ socket' = 0
               /\ timers' = timers + 1
          ELSE /\ out' = <<Event("disconnected"), Event("permanentlyDisconnected")>>
               /\ socket' = socket
               /\ timers' = timers]_vars

\* C3: the close handler takes the retry path iff the code is 1000 or
\* (retryOnClose and a socket is held); otherwise it emits disconnected then
\* permanentlyDisconnected and schedules no retry, and no physical socket is
\* created afterwards (until connect() is called).
C3_NonRetryCloseCreatesNoSocket ==
    [][/\ (last'.op = "close" /\ last'.hooked) =>
             IF last'.arg = NormalClosure \/ (retryOnClose /\ socket # 0)
             THEN /\ out' = <<Event("disconnected")>>
                  /\ socket' = 0
                  /\ timers' = timers + 1
             ELSE /\ out' = <<Event("disconnected"), Event("permanentlyDisconnected")>>
                  /\ socket' = socket
                  /\ timers' = timers
       /\ (terminal = "close" /\ last'.op # "connect") => nsock' = nsock]_vars

\* C4: after disconnect(), whatever the state it was called in, no physical
\* socket is created and connected is not emitted until connect() is called.
C4_DisconnectStopsRetrying ==
    [][(stopped /\ last'.op # "connect") =>
          (nsock' = nsock /\ ~Emitted(out', "connected"))]_vars

\* C5: disconnect() on a held, open socket emits disconnected then
\* permanentlyDisconnected, once each, detaches the socket's close and error
\* handlers and closes it; a close or error event the torn-down socket (held,
\* close() called) delivers afterwards emits nothing and changes neither the
\* pending retries nor the slot, the retry counter or the sockets created.
C5_DisconnectTearsDown ==
    /\ []((last.op = "disconnect" /\ last.held /\ last.rs = OPEN) =>
            /\ out = <<Event("disconnected"), Event("permanentlyDisconnected")>>
            /\ socket = last.sock
            /\ ~socks[socket].hooked
            /\ socks[socket].rs = CLOSING)
    /\ [][(/\ last'.op \in {"close", "error"}
           /\ last'.sock = socket
           /\ socks[socket].closeCalled) =>
             /\ out' = <<>>
             /\ timers' = timers
             /\ socket' = socket
             /\ retries' = retries
             /\ nsock' = nsock]_vars

\* The socket torn down by disconnect() while open has delivered its error event.
C5_Witness ==
    /\ last.op = "error"
    /\ last.held
    /\ last.rs = CLOSING
    /\ socks[last.sock].opened
    /\ stopped
    /\ out = <<>>

\* C6: once permanentlyDisconnected has been emitted, no physical socket is
\* created and connected is not emitted until connect() is called.
C6_PermanentIsTerminal ==
    [][(terminal # "no" /\ last'.op # "connect") =>
          (nsock' = nsock /\ ~Emitted(out', "connected"))]_vars

\* C7: an event arriving on a socket that is no longer the held one invokes no
\* listener and changes neither the held socket, the retry counter nor the
\* pending retries.
C7_SupersededSocketIsSilent ==
    [][(last'.op \in SocketOps /\ last'.sock # socket) =>
          /\ out' = <<>>
          /\ socket' = socket
          /\ retries' = retries
          /\ timers' = timers]_vars

\* A message step: the payload received.
Received == last.arg

\* C8: a text payload p that decodes to a value v other than null emits
\* rawMessage(p) then message(v), and nothing else.
C8_NonNullJsonIsMessage ==
    (/\ last.op = "message"
     /\ Received.kind = "text"
     /\ JSONparse(Received.chars).ok
     /\ JSONparse(Received.chars).val.t # "null") =>
        out = <<MessageEvent("rawMessage", Received),
                MessageEvent("message", JSONparse(Received.chars).val)>>

\* The same for the values JavaScript takes as true.  (Holds.)
TruthyJsonIsMessage ==
    (/\ last.op = "message"
     /\ Received.kind = "text"
     /\ JSONparse(Received.chars).ok
     /\ Truthy(JSONparse(Received.chars).val)) =>
        out = <<MessageEvent("rawMessage", Received),
                MessageEvent("message", JSONparse(Received.chars).val)>>

\* C9: a binary payload b emits rawMessage(b), binaryMessage(b) and
\* invalidMessage(b), in that order and once each, and no message.
C9_BinaryFiresThree ==
    (last.op = "message" /\ Received.kind = "binary") =>
        out = <<MessageEvent("rawMessage", Received),
                MessageEvent("binaryMessage", Received),
                MessageEvent("invalidMessage", Received)>>

C9_Witness ==
    /\ last.op = "message"
    /\ Received = Binary(<<1, 2, 3, 4>>)
    /\ Len(out) = 3

\* C10: a text payload p whose decoding fails or yields null emits rawMessage(p)
\* then invalidMessage(p), once each, and neither message nor binaryMessage.
C10_UndecodableTextIsInvalid ==
    (/\ last.op = "message"
     /\ Received.kind = "text"
     /\ (~JSONparse(Received.chars).ok \/ JSONparse(Received.chars).val.t = "null")) =>
        out = <<MessageEvent("rawMessage", Received),
                MessageEvent("invalidMessage", Received)>>

\* The payload null was received.
C10_Witness ==
    /\ last.op = "message"
    /\ Received = Text(<<"n", "u", "l", "l">>)
    /\ Len(out) = 2

\* C11: every inbound payload emits rawMessage exactly once and at most one of
\* message, binaryMessage and invalidMessage.
C11_ClassificationsExclusive ==
    last.op = "message" =>
        /\ Count(out, {"rawMessage"}) = 1
        /\ Count(out, {"message", "binaryMessage", "invalidMessage"}) <= 1

\* The same for the text payloads alone.  (Holds.)
TextClassificationsExclusive ==
    (last.op = "message" /\ Received.kind = "text") =>
        /\ Count(out, {"rawMessage"}) = 1
        /\ Count(out, {"message", "binaryMessage", "invalidMessage"}) = 1

\* C12: with retryOnClose = false, a close event with the normal-closure code
\* 1000 on the held socket emits permanentlyDisconnected and schedules no retry.
C12_GracefulCloseIsPermanent ==
    [][(/\ last'.op = "close"
        /\ last'.held
        /\ last'.hooked
        /\ last'.arg = NormalClosure
        /\ ~retryOnClose) =>
          /\ Emitted(out', "permanentlyDisconnected")
          /\ timers' = timers]_vars

\* C13: with maxRetries = 0 a retry never emits permanentlyDisconnected and always
\* calls connect(), whatever the retry counter: it counts the retry and creates a
\* socket, which becomes the held one.  With retryOnClose = true, in cycles of
\* the held socket opening and closing with code 1000, permanentlyDisconnected
\* is never emitted and connected was emitted once for each closure, and once
\* more when the socket is open: four times after three cycles.
C13_ZeroRetriesForever ==
    /\ []((maxRetries = 0 /\ retryOnClose /\ cycle.ok) =>
            /\ terminal = "no"
            /\ ~Emitted(out, "permanentlyDisconnected")
            /\ cycle.connected = cycle.closes +
                  (IF socket # 0 /\ socks[socket].rs = OPEN THEN 1 ELSE 0))
    /\ [][(last'.op = "retry" /\ maxRetries = 0) =>
             /\ ~Emitted(out', "permanentlyDisconnected")
             /\ retries' = retries + 1
             /\ nsock' = nsock + 1
             /\ socket' = nsock'
             /\ socks'[socket'].rs = CONNECTING]_vars

\* Three cycles done and the fourth socket open: connected was emitted four times.
C13_Witness ==
    /\ cycle.ok
    /\ cycle.closes = 3
    /\ cycle.connected = 4
    /\ socks[socket].rs = OPEN
    /\ maxRetries = 0
    /\ retryOnClose

\* C14: with maxRetries = N > 0 the retry counter is raised by retries alone, and
\* a retry that leaves it above N emits disconnected then permanentlyDisconnected
\* and does not call connect(): it creates no socket and leaves the slot alone.
\* So whenever the counter exceeds N, permanentlyDisconnected was emitted in the
\* step that raised it above N.
C14_CounterWithinLimit ==
    [][maxRetries > 0 =>
          /\ retries' > retries => (last'.op = "retry" /\ retries' = retries + 1)
          /\ (last'.op = "retry" /\ retries' > maxRetries) =>
                /\ out' = <<Event("disconnected"), Event("permanentlyDisconnected")>>
                /\ nsock' = nsock
                /\ socket' = socket
                /\ socks' = socks]_vars

\* The counter has passed the limit: the retry that raised it gave up.
C14_Witness ==
    /\ maxRetries > 0
    /\ retries = maxRetries + 1
    /\ last.op = "retry"
    /\ terminal = "retry"

\* C15: an event of a socket torn down by disconnect() (its close and error
\* handlers detached, close() called on it), whether open, message, close or
\* error, invokes no listener: it emits nothing.
C15_TornDownSocketIsSilent ==
    [][(/\ last'.op \in SocketOps
        /\ last'.sock # 0
        /\ ~last'.hooked
        /\ socks[last'.sock].closeCalled) => out' = <<>>]_vars

\* The listeners registered for a kind, and those invoked for the i-th event the
\* last step emitted.
RegisteredIn(registry, kind) == {registry[kind][i] : i \in 1..Len(registry[kind])}
Registered(kind) == RegisteredIn(events, kind)
Invoked(i) ==
    {c.listener : c \in {calls[j] : j \in {j \in 1..Len(calls) :
                                             /\ calls[j].kind = out[i].kind
                                             /\ calls[j].args = out[i].args}}}

\* C16: in the fan-out of an emitted event every listener registered for its kind
\* is invoked, whether or not a listener invoked before it raises.
C16_RaisingListenerIsIsolated ==
    \A i \in 1..Len(out) :
        \A l \in Registered(out[i].kind) : l \in Invoked(i)

\* The fan-out as the code runs it: the listeners up to the first that raises.
\* (Holds.)
FanOutStopsAtFirstRaise ==
    \A i \in 1..Len(out) :
        LET ls == events[out[i].kind]
        IN  \A n \in 1..Len(ls) :
                ls[n] \in Invoked(i) <=> \A m \in 1..(n - 1) : ls[m] \notin raising

\* How many times the last step invoked the listener for events of the kind.
Invocations(listener, kind) ==
    Cardinality({j \in 1..Len(calls) :
                    calls[j].listener = listener /\ calls[j].kind = kind})

\* on and off act on the registry as on a set: off(kind, l) removes l from the
\* listeners of kind and nothing else, and changes nothing where l is not
\* registered; on(kind, l) adds l to them and nothing else, and changes nothing
\* where l is registered already.
RegistrySteps ==
    /\ last'.op = "off" =>
          /\ RegisteredIn(events', last'.arg[1]) =
                Registered(last'.arg[1]) \ {last'.arg[2]}
          /\ \A kind \in EventKinds \ {last'.arg[1]} : events'[kind] = events[kind]
          /\ last'.arg[2] \notin Registered(last'.arg[1]) => events' = events
    /\ last'.op = "on" =>
          /\ RegisteredIn(events', last'.arg[1]) =
                Registered(last'.arg[1]) \cup {last'.arg[2]}
          /\ \A kind \in EventKinds \ {last'.arg[1]} : events'[kind] = events[kind]
          /\ last'.arg[2] \in Registered(last'.arg[1]) => events' = events
    /\ last'.op \notin {"on", "off"} => events' = events

\* C17: off(kind, l) after on(kind, l) leaves l unregistered and every other
\* listener registered, off of an unregistered listener and on of a registered
\* one change nothing; and each event emitted invokes every listener registered
\* for its kind exactly once and no other listener.
C17_OnOffSetSemantics ==
    /\ [][RegistrySteps]_vars
    /\ [](\A kind \in EventKinds, l \in Listeners :
            Invocations(l, kind) =
                IF l \in Registered(kind) THEN Count(out, {kind}) ELSE 0)

\* The same where no registered listener raises, and in every case no listener
\* is invoked more than once per event, nor once it is removed.  (Holds.)
RegistryIsASet ==
    /\ [][RegistrySteps]_vars
    /\ [](\A kind \in EventKinds, l \in Listeners :
            /\ Invocations(l, kind) <=
                  (IF l \in Registered(kind) THEN Count(out, {kind}) ELSE 0)
            /\ Registered(kind) \cap raising = {} =>
                  Invocations(l, kind) =
                      IF l \in Registered(kind) THEN Count(out, {kind}) ELSE 0)

\* What send and sendRaw leave alone: the slot, the retry counter, the pending
\* retries, the sockets and the registry; and they emit nothing.
SendFrame ==
    /\ out' = <<>>
    /\ calls' = <<>>
    /\ UNCHANGED <<socket, retries, timers, socks, nsock, events>>

\* C18: send(v) while a socket is held hands that socket exactly one payload, the
\* text JSON.stringify(v), which JSON.parse decodes to v; it raises nothing,
\* emits nothing and changes nothing of the handle.
C18_SendEncodesOnce ==
    [][(last'.op = "send" /\ socket # 0) =>
          /\ sent' = <<[sock |-> socket, data |-> Text(JSONstringify(last'.arg))]>>
          /\ JSONparse(sent'[1].data.chars) = [ok |-> TRUE, val |-> last'.arg]
          /\ ~raised'
          /\ SendFrame]_vars

\* The message of the tests was sent on the held socket.
C18_Witness ==
    /\ last.op = "send"
    /\ last.held
    /\ last.arg.t = "object"
    /\ Len(last.arg.v) = 1
    /\ Len(sent) = 1
    /\ sent[1].data.chars =
          <<"{", "\"", "t", "y", "p", "e", "\"", ":", "\"", "t", "e", "s", "t", "\"", "}">>

\* C19: send(v) and sendRaw(p) while no socket is held hand no socket anything,
\* emit nothing, raise nothing and change nothing of the handle; and nothing is
\* kept for later: the steps that are not sends hand no payload to a socket.
C19_SendWithoutSocketIsNoOp ==
    /\ [][(last'.op \in {"send", "sendRaw"} /\ socket = 0) =>
             /\ sent' = <<>>
             /\ ~raised'
             /\ SendFrame]_vars
    /\ [](last.op \notin {"send", "sendRaw"} => sent = <<>>)

\* A value was sent while no socket was held and a retry was pending.
C19_Witness ==
    /\ last.op = "send"
    /\ last.sock = 0
    /\ socket = 0
    /\ timers > 0
    /\ sent = <<>>

\* C20: the close event of a socket right after its error event, with any close
\* code, schedules no further retry: one retry is pending for that failure, the
\* one the error handler scheduled.
C20_OneRetryPerFailure ==
    [][(/\ last.op = "error"
        /\ last.hooked
        /\ last'.op = "close"
        /\ last'.sock = last.sock) =>
          /\ timers' = timers
          /\ retries' = retries]_vars

\* The same for a close code other than 1000.  (Holds.)
OneRetryUnlessNormalClosure ==
    [][(/\ last.op = "error"
        /\ last.hooked
        /\ last'.op = "close"
        /\ last'.sock = last.sock
        /\ last'.arg # NormalClosure) =>
          /\ timers' = timers
          /\ retries' = retries]_vars

ErrorAlwaysRetries ==
    [][(/\ last'.held
        /\ last'.hooked
        /\ \/ last'.op = "error"
           \/ last'.op = "close" /\ retryOnClose) =>
          /\ timers' = timers + 1
          /\ socket' = 0
          /\ ~Emitted(out', "permanentlyDisconnected")
          /\ ~raised']_vars

\* C23: whether or not a listener raises, the error handler of the held socket
\* empties the slot and schedules a retry, disconnect() with a socket held emits
\* permanentlyDisconnected, and the close handler on its retry path schedules a
\* retry.
C23_RaisingListenerKeepsTransition ==
    [][/\ (last'.op = "error" /\ last'.held /\ last'.hooked) =>
             (socket' = 0 /\ timers' = timers + 1)
       /\ (last'.op = "disconnect" /\ last'.held) =>
             Emitted(out', "permanentlyDisconnected")
       /\ (/\ last'.op = "close"
           /\ last'.held
           /\ last'.hooked
           /\ last'.arg = NormalClosure) => timers' = timers + 1]_vars

\* The same where no listener of disconnected raises.  (Holds.)
TransitionWithoutRaise ==
    [][Registered("disconnected") \cap raising = {} =>
          /\ (last'.op = "error" /\ last'.held /\ last'.hooked) =>
                (socket' = 0 /\ timers' = timers + 1)
          /\ (last'.op = "disconnect" /\ last'.held) =>
                Emitted(out', "permanentlyDisconnected")
          /\ (/\ last'.op = "close"
              /\ last'.held
              /\ last'.hooked
              /\ last'.arg = NormalClosure) => timers' = timers + 1]_vars

\* The listeners registered for the kind of the one event a step emits, invoked
\* once each in order of registration.
Snapshot == [i \in 1..Len(events[out'[1].kind]) |->
                Call(events[out'[1].kind][i], out'[1].kind, out'[1].args)]

\* C24: a step that emits one event invokes exactly the listeners registered
\* for it when the emit starts, once each, in order of registration, whatever
\* registrations and removals the listeners make while they are invoked.
C24_EmitIteratesSnapshot ==
    [][Len(out') = 1 => calls' = Snapshot]_vars

\* What the loop does: the snapshot is what is invoked where no listener
\* registered for the event calls on or off.
SnapshotWithoutReentry ==
    [][(/\ Len(out') = 1
        /\ \A l \in Registered(out'[1].kind) : reenters[l] = "no")
       => calls' = Snapshot]_vars

\* A listener registered during the loop is invoked by that loop.
C24_Witness ==
    /\ reenters[1] = "on"
    /\ last.op = "open"
    /\ calls = <<Call(1, "connected", <<>>), Call(2, "connected", <<>>)>>

\* The close handler on its retry path with a socket in the slot.
RetryPathClose ==
    /\ last'.op = "close"
    /\ last'.hooked
    /\ socket # 0
    /\ (last'.arg = NormalClosure \/ retryOnClose)

\* C25: where the socket's close() raises, connect() with a socket held still
\* creates and holds the new socket, disconnect() with a socket held still
\* emits disconnected then permanentlyDisconnected, and the close handler's
\* retry scheduling still empties the slot, emits disconnected and schedules
\* the retry; nothing is raised to the caller.
C25_CloseFailureIsSwallowed ==
    [][closeRaises =>
          /\ (last'.op \in {"connect", "disconnect", "close"}) => ~raised'
          /\ (last'.op = "connect" /\ socket # 0) =>
                (nsock' = nsock + 1 /\ socket' = nsock')
          /\ (last'.op = "disconnect" /\ socket # 0) =>
                out' = <<Event("disconnected"), Event("permanentlyDisconnected")>>
          /\ RetryPathClose =>
                /\ socket' = 0
                /\ out' = <<Event("disconnected")>>
                /\ timers' = timers + 1]_vars

\* What the three paths do where close() raises: connect() swallows the failure,
\* skips its disconnected event and creates the socket; disconnect() swallows it
\* and emits nothing; the retry scheduling lets it through and does nothing
\* more.  (Holds.)
CloseFailureOutcomes ==
    [][closeRaises =>
          /\ (last'.op = "connect" /\ socket # 0) =>
                /\ nsock' = nsock + 1
                /\ socket' = nsock'
                /\ out' = <<>>
                /\ ~raised'
          /\ (last'.op = "disconnect" /\ socket # 0) =>
                (out' = <<>> /\ ~raised')
          /\ RetryPathClose =>
                /\ raised'
                /\ socket' = socket
                /\ out' = <<>>
                /\ timers' = timers]_vars

\* C26: in the events a step emits, every permanentlyDisconnected comes
\* directly after a disconnected: on the close handler's non-retry path, in
\* disconnect() and in the retry that gives up.
C26_DisconnectedPrecedesPermanent ==
    \A i \in 1..Len(out) :
        out[i].kind = "permanentlyDisconnected" =>
            (i > 1 /\ out[i - 1].kind = "disconnected")

\* A retry gave up and emitted the two events.
C26_Witness ==
    /\ last.op = "retry"
    /\ out = <<Event("disconnected"), Event("permanentlyDisconnected")>>

\* Socket s was closed by the handle, or has reported an error or its close.
Finished(s) == socks[s].closeCalled \/ socks[s].errored \/ socks[s].done

\* C27: every socket the handle created other than the one it holds has had
\* close() called on it or has reported an error or its close.
C27_NoSocketLeftOpenOutsideSlot ==
    \A s \in 1..nsock : s # socket => Finished(s)

\* A socket is left un-closed outside the slot only by the handler of a socket
\* that is not the held one: the public methods, the timer callback and the
\* handlers of the held socket leave none.  (Holds.)
LeftOpenOnlyByReplacedSocket ==
    [][(/\ C27_NoSocketLeftOpenOutsideSlot
        /\ (last'.held \/ last'.op \notin SocketOps)) =>
          C27_NoSocketLeftOpenOutsideSlot']_vars

\* C28: connect() called after the retries were exhausted restores the retry
\* budget: when its socket fails with an error event before opening, the retry
\* that follows (maxRetries being at least 1) creates a new socket and emits no
\* permanentlyDisconnected.
C28_ConnectRestoresRetryBudget ==
    [][(fresh /\ maxRetries > 0 /\ last'.op = "retry") =>
          /\ nsock' = nsock + 1
          /\ socket' = nsock'
          /\ ~Emitted(out', "permanentlyDisconnected")]_vars

\* What the retry does: connect() leaves the counter past the limit, so the
\* first retry after it gives up at once and no automatic retry is made.
\* (Holds.)
ConnectKeepsExhaustedCounter ==
    [][(fresh /\ maxRetries > 0 /\ last'.op = "retry") =>
          /\ retries > maxRetries
          /\ nsock' = nsock
          /\ out' = <<Event("disconnected"), Event("permanentlyDisconnected")>>]_vars

\* The retries are exhausted again, by the only retry made after that connect().
C28_Witness ==
    /\ last.op = "retry"
    /\ terminal = "retry"
    /\ nsock = 3
    /\ socks[3].errored
    /\ retries = maxRetries + 2

\* The last step emitted permanentlyDisconnected as its last event.
Permanent == out # <<>> /\ out[Len(out)].kind = "permanentlyDisconnected"

\* C29: right after permanentlyDisconnected was emitted no socket is held and
\* readyState is 0.
C29_NoSocketAfterPermanent ==
    Permanent => (socket = 0 /\ readyState(Cur) = 0)

\* After the retry that gave up no socket is held.  (Holds.)
ExhaustionHoldsNoSocket ==
    (Permanent /\ last.op = "retry") => (socket = 0 /\ readyState(Cur) = 0)

\* After disconnect() and after the close handler's non-retry path the socket
\* is still held: readyState is its readyState, send and sendRaw hand it their
\* payload and disconnect() emits the two events again.  (Holds.)
SocketKeptAfterPermanent ==
    /\ []((Permanent /\ last.op \in {"disconnect", "close"}) =>
             /\ socket # 0
             /\ readyState(Cur) \in {CLOSING, CLOSED})
    /\ [][(Permanent /\ last.op \in {"disconnect", "close"}) =>
             /\ last'.op \in {"send", "sendRaw"} =>
                   (Len(sent') = 1 /\ sent'[1].sock = socket)
             /\ last'.op = "disconnect" =>
                   out' = <<Event("disconnected"), Event("permanentlyDisconnected")>>]_vars

\* The steps that are neither a socket's open event nor a retry.
FrameOps ==
    {"connect", "disconnect", "send", "sendRaw", "on", "off", "readyState",
     "message", "close", "error"}

\* C30: the retry counter is 0 after a socket's open handler has run; it changes
\* only there and in a retry, which adds exactly 1 to it; connect(),
\* disconnect(), send, sendRaw, on, off, readyState and the message handler
\* leave it as it is.
C30_RetryCountFrame ==
    /\ [](last.op = "open" => retries = 0)
    /\ [][/\ last'.op = "retry" => retries' = retries + 1
          /\ last'.op \in FrameOps => retries' = retries]_vars

\* A socket created by a retry has opened: the counter went from 0 to 1 and back.
\* A listener of connected was told.
C30_Witness ==
    /\ last.op = "open"
    /\ last.sock = 2
    /\ socks[1].errored
    /\ retries = 0
    /\ calls = <<Call(1, "connected", <<>>)>>

====
